---- MODULE Spec2Model ----
(***************************************************************************)
(* Model of the Tauri setup hook of ui/src-tauri/src/lib.rs: on Windows    *)
(* it opens two append-mode log files in the backend directory, spawns the *)
(* uvicorn backend as a child process and records the outcome of the spawn *)
(* in a status file; on every other target the hook only returns Ok(()).   *)
(*                                                                         *)
(* The file system, the operating system's answer to each open, spawn and  *)
(* write, and the spawned backend are the environment: every outcome the   *)
(* calls can report is a nondeterministic choice.                          *)
(***************************************************************************)
EXTENDS Integers, Sequences, FiniteSets, TLC

(* ---------------------------------------------------------------- bounds *)

\* Number of host-application launches over the same backend directory.
MaxLaunches == 2

\* Longest log content (in chunks) the backend processes are let to produce.
MaxLogLen == 2

(* ------------------------------------------------------- program constants *)

\* cmd.creation_flags(0x08000000): CREATE_NO_WINDOW.
CREATE_NO_WINDOW == 134217728

\* env!("CARGO_MANIFEST_DIR"): ...\ui\src-tauri, as path components.
manifest_dir == <<"ui", "src-tauri">>

\* format!(r"{}\..\..\backend", manifest_dir)
backend_dir == manifest_dir \o <<"..", "..", "backend">>

\* format!(r"{}\.venv\Scripts\python.exe", backend_dir)
python_exe == backend_dir \o <<".venv", "Scripts", "python.exe">>

\* format!(r"{}\backend_out.log", backend_dir)
out_path == backend_dir \o <<"backend_out.log">>

\* format!(r"{}\backend_err.log", backend_dir)
err_path == backend_dir \o <<"backend_err.log">>

\* format!(r"{}\tauri_spawn_ok.log", backend_dir)
spawn_ok_path == backend_dir \o <<"tauri_spawn_ok.log">>

\* format!(r"{}\tauri_spawn_err.log", backend_dir)
spawn_err_path == backend_dir \o <<"tauri_spawn_err.log">>

\* cmd.args([...])
uvicorn_args == <<"-m", "uvicorn", "main:app", "--host", "127.0.0.1", "--port", "8000">>

\* The literal handed to std::fs::write on success.
SpawnOkText == <<"spawn ok\n">>

\* A format string that lost its {}: the error text never reaches the file.
FormatSpawnError_NoMessage(e) == <<"spawn error: ", "\n">>

\* format!("spawn error: {}\n", e)
FormatSpawnError(e) == <<"spawn error: ", e, "\n">>

(* ------------------------------------------------------------ environment *)

\* The compile targets: #[cfg(target_os = "windows")] or any other.
Platforms == {"windows", "other"}

\* The messages of the io::Error a failed spawn can carry.
SpawnErrors == {"program not found", "access denied"}

\* What std::fs::write can do: write everything, fail to create the file
\* (nothing changes), or fail while writing after the truncating create.
WriteOutcomes == {"written", "create_failed", "write_failed"}

Paths == {out_path, err_path, spawn_ok_path, spawn_err_path}

LogPaths == {out_path, err_path}

StatusPaths == {spawn_ok_path, spawn_err_path}

Absent == [present |-> FALSE, data |-> <<>>]

File(d) == [present |-> TRUE, data |-> d]

\* Log content left in the backend directory before the first launch; the
\* status files are written by nothing but the hook and start absent.
OldLog == <<"old">>

\* What a backend process writes to a log at a time.
LogLine == "line"

IsPrefix(s, t) == Len(s) <= Len(t) /\ SubSeq(t, 1, Len(s)) = s

(* ------------------------------------------------------------------ state *)

VARIABLES
  platform,       \* the target the hook was compiled for
  files,          \* the backend directory: path -> [present, data]
  pc,             \* where the host process is
  launches,       \* number of host launches so far
  handles,        \* log files the running setup hook holds open
  spawnResult,    \* what cmd.spawn() returned in this launch
  writeResult,    \* what std::fs::write did in this launch, before .ok()
  setupResult,    \* what the setup hook returned in this launch
  children,       \* every backend process ever created, in order
  trace           \* the file and process steps of this launch's hook

vars == <<platform, files, pc, launches, handles, spawnResult, writeResult,
          setupResult, children, trace>>

(* ---------------------------------------------------------------- helpers *)

\* The open with truncate(true) in place of append(true): old content is lost.
OpenAppend_Truncate(fs, path) == [fs EXCEPT ![path] = File(<<>>)]

\* OpenOptions::new().create(true).append(true).open(path), when it succeeds:
\* the file is created empty if absent and is never truncated.
OpenAppend(fs, path) ==
  IF fs[path].present THEN fs ELSE [fs EXCEPT ![path] = File(<<>>)]

\* A status write through an append-mode handle: old content is kept in front.
FsWrite_Append(fs, path, data, outcome, n) ==
  CASE outcome = "written" -> [fs EXCEPT ![path] = File(fs[path].data \o data)]
    [] outcome = "create_failed" -> fs
    [] outcome = "write_failed" ->
         [fs EXCEPT ![path] = File(fs[path].data \o SubSeq(data, 1, n))]

\* std::fs::write(path, data): create-or-truncate, then write_all; a write
\* that fails after the create leaves the first n pieces of data, n < Len(data).
FsWrite(fs, path, data, outcome, n) ==
  CASE outcome = "written" -> [fs EXCEPT ![path] = File(data)]
    [] outcome = "create_failed" -> fs
    [] outcome = "write_failed" -> [fs EXCEPT ![path] = File(SubSeq(data, 1, n))]

\* The Command built between the opens and the spawn.
BuildCommand ==
  [program |-> python_exe,
   cwd |-> backend_dir,
   args |-> uvicorn_args,
   stdout |-> out_path,
   stderr |-> err_path,
   creation_flags |-> CREATE_NO_WINDOW]

\* The process the operating system creates from a Command.
NewChild(cmd, launch) ==
  [program |-> cmd.program, cwd |-> cmd.cwd, args |-> cmd.args,
   stdout |-> cmd.stdout, stderr |-> cmd.stderr,
   creation_flags |-> cmd.creation_flags,
   launch |-> launch, state |-> "running"]

(* ------------------------------------------------------------------- Init *)

Init ==
  /\ platform \in Platforms
  /\ \E logs \in [LogPaths -> {Absent, File(OldLog)}] :
       files = [p \in Paths |-> IF p \in LogPaths THEN logs[p] ELSE Absent]
  /\ pc = "not_started"
  /\ launches = 0
  /\ handles = {}
  /\ spawnResult = "none"
  /\ writeResult = "none"
  /\ setupResult = "none"
  /\ children = <<>>
  /\ trace = <<>>

(* ---------------------------------------------------------------- actions *)

\* The user starts the host application: a new process enters run().
Launch ==
  /\ pc \in {"not_started", "exited", "aborted"}
  /\ launches < MaxLaunches
  /\ launches' = launches + 1
  /\ pc' = "setup"
  /\ handles' = {}
  /\ spawnResult' = "none"
  /\ writeResult' = "none"
  /\ setupResult' = "none"
  /\ trace' = <<>>
  /\ UNCHANGED <<platform, files, children>>

\* The setup closure on a target other than Windows: the cfg block is
\* compiled out and the closure is just Ok(()).
SetupSkip ==
  /\ pc = "setup"
  /\ platform # "windows"
  /\ pc' = "return"
  /\ UNCHANGED <<platform, files, launches, handles, spawnResult, writeResult,
                 setupResult, children, trace>>

\* The block without its #[cfg(target_os = "windows")]: it runs everywhere.
OpenOut_NoCfg ==
  /\ pc = "setup"
  /\ \/ /\ files' = OpenAppend(files, out_path)
        /\ handles' = handles \cup {out_path}
        /\ trace' = Append(trace, "open_out")
        /\ pc' = "open_err"
     \/ /\ trace' = Append(trace, "open_out_failed")
        /\ pc' = "aborted"
        /\ handles' = {}
        /\ UNCHANGED files
  /\ UNCHANGED <<platform, launches, spawnResult, writeResult, setupResult,
                 children>>

\* The first open with its failure swallowed instead of unwrapped.
OpenOut_Swallow ==
  /\ pc = "setup"
  /\ platform = "windows"
  /\ \/ /\ files' = OpenAppend(files, out_path)
        /\ handles' = handles \cup {out_path}
        /\ trace' = Append(trace, "open_out")
     \/ /\ trace' = Append(trace, "open_out_failed")
        /\ UNCHANGED <<files, handles>>
  /\ pc' = "open_err"
  /\ UNCHANGED <<platform, launches, spawnResult, writeResult, setupResult,
                 children>>

\* let out_file = OpenOptions::new()...open(&out_path).unwrap();
OpenOut ==
  /\ pc = "setup"
  /\ platform = "windows"
  /\ \/ /\ files' = OpenAppend(files, out_path)
        /\ handles' = handles \cup {out_path}
        /\ trace' = Append(trace, "open_out")
        /\ pc' = "open_err"
     \/ /\ trace' = Append(trace, "open_out_failed")
        /\ pc' = "aborted"
        /\ handles' = {}
        /\ UNCHANGED files
  /\ UNCHANGED <<platform, launches, spawnResult, writeResult, setupResult,
                 children>>

\* The second open with its failure swallowed instead of unwrapped.
OpenErr_Swallow ==
  /\ pc = "open_err"
  /\ \/ /\ files' = OpenAppend(files, err_path)
        /\ handles' = handles \cup {err_path}
        /\ trace' = Append(trace, "open_err")
     \/ /\ trace' = Append(trace, "open_err_failed")
        /\ UNCHANGED <<files, handles>>
  /\ pc' = "spawn"
  /\ UNCHANGED <<platform, launches, spawnResult, writeResult, setupResult,
                 children>>

\* let err_file = OpenOptions::new()...open(&err_path).unwrap();
OpenErr ==
  /\ pc = "open_err"
  /\ \/ /\ files' = OpenAppend(files, err_path)
        /\ handles' = handles \cup {err_path}
        /\ trace' = Append(trace, "open_err")
        /\ pc' = "spawn"
     \/ /\ trace' = Append(trace, "open_err_failed")
        /\ pc' = "aborted"
        /\ handles' = {}
        /\ UNCHANGED files
  /\ UNCHANGED <<platform, launches, spawnResult, writeResult, setupResult,
                 children>>

\* match cmd.spawn(): the command is built and handed to the system once.
Spawn ==
  /\ pc = "spawn"
  /\ \/ /\ children' = Append(children, NewChild(BuildCommand, launches))
        /\ spawnResult' = "Ok"
        /\ trace' = Append(trace, "spawn_ok")
     \/ \E e \in SpawnErrors :
          /\ spawnResult' = e
          /\ trace' = Append(trace, "spawn_failed")
          /\ UNCHANGED children
  /\ pc' = "status"
  /\ UNCHANGED <<platform, files, launches, handles, writeResult, setupResult>>

\* The status write with .unwrap() in place of .ok(): a failed write panics.
WriteStatus_Unwrap ==
  /\ pc = "status"
  /\ \E outcome \in WriteOutcomes :
       /\ writeResult' = outcome
       /\ IF spawnResult = "Ok"
            THEN /\ \E n \in 0..(Len(SpawnOkText) - 1) :
                      files' = FsWrite(files, spawn_ok_path, SpawnOkText, outcome, n)
                 /\ trace' = Append(trace, "write_spawn_ok")
            ELSE /\ \E n \in 0..(Len(FormatSpawnError(spawnResult)) - 1) :
                      files' = FsWrite(files, spawn_err_path,
                                       FormatSpawnError(spawnResult), outcome, n)
                 /\ trace' = Append(trace, "write_spawn_err")
       /\ pc' = IF outcome = "written" THEN "return" ELSE "aborted"
  /\ UNCHANGED <<platform, launches, handles, spawnResult, setupResult,
                 children>>

\* The status writes outside the match: both files are written every time.
WriteStatus_Both ==
  /\ pc = "status"
  /\ \E outcome \in WriteOutcomes :
       /\ writeResult' = outcome
       /\ files' = FsWrite(FsWrite(files, spawn_ok_path, SpawnOkText, outcome, 0),
                           spawn_err_path, FormatSpawnError(spawnResult), outcome, 0)
       /\ trace' = trace \o <<"write_spawn_ok", "write_spawn_err">>
  /\ pc' = "return"
  /\ UNCHANGED <<platform, launches, handles, spawnResult, setupResult,
                 children>>

\* The arm of the match: std::fs::write(...).ok(), its result discarded.
WriteStatus ==
  /\ pc = "status"
  /\ \E outcome \in WriteOutcomes :
       /\ writeResult' = outcome
       /\ IF spawnResult = "Ok"
            THEN /\ \E n \in 0..(Len(SpawnOkText) - 1) :
                      files' = FsWrite(files, spawn_ok_path, SpawnOkText, outcome, n)
                 /\ trace' = Append(trace, "write_spawn_ok")
            ELSE /\ \E n \in 0..(Len(FormatSpawnError(spawnResult)) - 1) :
                      files' = FsWrite(files, spawn_err_path,
                                       FormatSpawnError(spawnResult), outcome, n)
                 /\ trace' = Append(trace, "write_spawn_err")
  /\ pc' = "return"
  /\ UNCHANGED <<platform, launches, handles, spawnResult, setupResult,
                 children>>

\* Ok(()) at the end of the closure: the block's handles are dropped and
\* the builder goes on to run the application.
SetupReturn ==
  /\ pc = "return"
  /\ setupResult' = "Ok"
  /\ handles' = {}
  /\ pc' = "running"
  /\ UNCHANGED <<platform, files, launches, spawnResult, writeResult, children,
                 trace>>

\* A host that keeps the Child and kills it when it exits.
HostExit_KillChildren ==
  /\ pc = "running"
  /\ pc' = "exited"
  /\ children' = [c \in DOMAIN children |->
                    IF children[c].launch = launches
                    THEN [children[c] EXCEPT !.state = "exited"]
                    ELSE children[c]]
  /\ UNCHANGED <<platform, files, launches, handles, spawnResult, writeResult,
                 setupResult, trace>>

\* The user closes the application; nothing holds the child's handle.
HostExit ==
  /\ pc = "running"
  /\ pc' = "exited"
  /\ UNCHANGED <<platform, files, launches, handles, spawnResult, writeResult,
                 setupResult, children, trace>>

\* A backend process writes to its standard output or standard error, which
\* were redirected to the append-mode log files.
ChildWrite(c) ==
  /\ children[c].state = "running"
  /\ \E p \in {children[c].stdout, children[c].stderr} :
       /\ files[p].present
       /\ Len(files[p].data) < MaxLogLen
       /\ files' = [files EXCEPT ![p].data = Append(@, LogLine)]
  /\ UNCHANGED <<platform, pc, launches, handles, spawnResult, writeResult,
                 setupResult, children, trace>>

\* A backend process ends on its own.
ChildExit(c) ==
  /\ children[c].state = "running"
  /\ children' = [children EXCEPT ![c].state = "exited"]
  /\ UNCHANGED <<platform, files, pc, launches, handles, spawnResult,
                 writeResult, setupResult, trace>>

HostStep ==
  \/ SetupSkip
  \/ OpenOut
  \/ OpenErr
  \/ Spawn
  \/ WriteStatus
  \/ SetupReturn

ChildStep == \E c \in DOMAIN children : ChildWrite(c) \/ ChildExit(c)

Next ==
  \/ Launch
  \/ HostStep
  \/ HostExit
  \/ ChildStep

Spec == Init /\ [][Next]_vars

\* The hook runs synchronously on the host's startup thread: once entered,
\* its next step is always taken.
FairSpec == Spec /\ WF_vars(HostStep)

(* ------------------------------------------------------------- properties *)

\* The hook of the current launch has taken step ev.
Has(ev) == \E i \in DOMAIN trace : trace[i] = ev

\* How often the hook of the current launch has taken step ev.
Count(ev) == Cardinality({i \in DOMAIN trace : trace[i] = ev})

\* The processes created by launch n.
ChildrenOfLaunch(n) == {c \in DOMAIN children : children[c].launch = n}

\* The hook of the current launch is past its status write.
PastStatus == pc \in {"return", "running", "exited"}

SpawnFailed == spawnResult \in SpawnErrors

LogOpenFailed == Has("open_out_failed") \/ Has("open_err_failed")

\* C1 as stated: after a launch whose opens and spawn succeeded there is
\* exactly one child of that launch, working in backend_dir; the file
\* tauri_spawn_ok.log holds exactly "spawn ok\n"; tauri_spawn_err.log was not
\* written.
C1_Original ==
  (PastStatus /\ spawnResult = "Ok") =>
    /\ Cardinality(ChildrenOfLaunch(launches)) = 1
    /\ \A c \in ChildrenOfLaunch(launches) : children[c].cwd = backend_dir
    /\ files[spawn_ok_path] = File(SpawnOkText)
    /\ ~Has("write_spawn_err")

\* C1, amended: after a launch whose opens and spawn succeeded there is
\* exactly one child of that launch, working in backend_dir, and
\* tauri_spawn_err.log is not written by any step of that launch; if the
\* status write succeeds, tauri_spawn_ok.log holds exactly "spawn ok\n"
\* whatever it held before; if the file cannot be created it is left as it
\* was; if the write fails after the create the file is left truncated. The
\* result of the write is discarded either way.
C1_SpawnOk ==
  /\ [](PastStatus /\ spawnResult = "Ok" =>
          /\ Cardinality(ChildrenOfLaunch(launches)) = 1
          /\ \A c \in ChildrenOfLaunch(launches) : children[c].cwd = backend_dir
          /\ ~Has("write_spawn_err")
          /\ Count("write_spawn_ok") = 1
          /\ writeResult = "written" =>
               files[spawn_ok_path] = File(SpawnOkText)
          /\ writeResult = "write_failed" =>
               files[spawn_ok_path] = File(<<>>))
  /\ [][(spawnResult' = "Ok" /\ launches' = launches) =>
          /\ files'[spawn_err_path] = files[spawn_err_path]
          /\ writeResult' = "create_failed" =>
               files'[spawn_ok_path] = files[spawn_ok_path]]_vars

\* A second launch spawned its child and overwrote an older success marker.
C1_Witness ==
  /\ pc = "running"
  /\ launches = 2
  /\ spawnResult = "Ok"
  /\ writeResult = "written"
  /\ Len(children) = 2
  /\ files[spawn_ok_path] = File(SpawnOkText)

\* C2 as stated: after a launch whose opens succeeded and whose spawn failed
\* there is no child of that launch, the spawn was tried once, the file
\* tauri_spawn_err.log holds "spawn error: <message>\n", tauri_spawn_ok.log
\* was not written and the host was not aborted.
C2_Original ==
  (PastStatus /\ SpawnFailed) =>
    /\ ChildrenOfLaunch(launches) = {}
    /\ Count("spawn_failed") = 1
    /\ files[spawn_err_path] = File(FormatSpawnError(spawnResult))
    /\ ~Has("write_spawn_ok")
    /\ pc # "aborted"

\* C2, amended: a failed spawn is not fatal: the launch has no child, the
\* spawn is tried once and never again, tauri_spawn_ok.log is not written
\* by any step of that launch, the hook goes on to return Ok(()) and the
\* host runs; if the status write succeeds, tauri_spawn_err.log holds
\* "spawn error: ", the error message and a newline; if the file cannot be
\* created it is left as it was; if the write fails after the create the
\* file holds a proper prefix of that text.
C2_SpawnFailed ==
  /\ [](PastStatus /\ SpawnFailed =>
          /\ ChildrenOfLaunch(launches) = {}
          /\ Count("spawn_failed") = 1
          /\ Count("spawn_ok") = 0
          /\ ~Has("write_spawn_ok")
          /\ Count("write_spawn_err") = 1
          /\ writeResult = "written" =>
               files[spawn_err_path] = File(<<"spawn error: ", spawnResult, "\n">>)
          /\ writeResult = "write_failed" =>
               /\ files[spawn_err_path].present
               /\ Len(files[spawn_err_path].data) < 3
               /\ IsPrefix(files[spawn_err_path].data,
                           <<"spawn error: ", spawnResult, "\n">>)
          /\ pc = "return" => ENABLED SetupReturn
          /\ pc \in {"running", "exited"} => setupResult = "Ok")
  /\ [][(SpawnFailed' /\ launches' = launches) =>
          /\ files'[spawn_ok_path] = files[spawn_ok_path]
          /\ Len(children') = Len(children)
          /\ writeResult' = "create_failed" =>
               files'[spawn_err_path] = files[spawn_err_path]]_vars

\* The interpreter was missing: the error is on disk and the host runs.
C2_Witness ==
  /\ pc = "running"
  /\ spawnResult = "program not found"
  /\ writeResult = "written"
  /\ setupResult = "Ok"
  /\ files[spawn_err_path] = File(<<"spawn error: ", "program not found", "\n">>)
  /\ ChildrenOfLaunch(launches) = {}

\* C3: when opening backend_out.log or backend_err.log fails, the host is
\* aborted and stays so: this launch attempts no spawn, creates no child,
\* makes no status write, changes neither status file, and its hook never
\* returns.
C3_LogOpenFailureFatal ==
  /\ [](LogOpenFailed =>
          /\ pc = "aborted"
          /\ ~Has("spawn_ok") /\ ~Has("spawn_failed")
          /\ spawnResult = "none"
          /\ ChildrenOfLaunch(launches) = {}
          /\ ~Has("write_spawn_ok") /\ ~Has("write_spawn_err")
          /\ writeResult = "none"
          /\ setupResult = "none")
  /\ [][(pc' = "aborted" /\ launches' = launches) =>
          /\ \A p \in StatusPaths : files'[p] = files[p]
          /\ Len(children') = Len(children)]_vars

\* backend_out.log opened, backend_err.log did not, and the host is gone.
C3_Witness ==
  /\ pc = "aborted"
  /\ trace = <<"open_out", "open_err_failed">>
  /\ launches = 1

\* C4 as stated: once a launch is past its spawn attempt and status write,
\* tauri_spawn_ok.log exists, holding the success marker, exactly if the
\* attempt succeeded, and tauri_spawn_err.log exists, holding that attempt's
\* error text, exactly if it failed. Stated here for the launches whose
\* status write itself succeeded.
C4_Original ==
  (PastStatus /\ spawnResult # "none" /\ writeResult = "written") =>
    /\ files[spawn_ok_path].present <=> spawnResult = "Ok"
    /\ files[spawn_err_path].present <=> SpawnFailed
    /\ spawnResult = "Ok" => files[spawn_ok_path] = File(SpawnOkText)
    /\ SpawnFailed => files[spawn_err_path] = File(FormatSpawnError(spawnResult))

\* C5 as stated: no launch is ever aborted by its hook, whatever the opens,
\* the spawn and the status write do.
C5_Original == pc # "aborted"

\* C5, amended: a hook whose two log files opened (or whose block is
\* compiled out) always returns Ok(()) and the host goes on to run, whatever
\* the spawn attempt and the status write do; the only thing that stops a
\* launch is a log file that fails to open.
C5_ReturnsUnlessOpenFails ==
  /\ [](pc = "aborted" => LogOpenFailed)
  /\ [](pc \in {"running", "exited"} => setupResult = "Ok")
  /\ (pc = "spawn" \/ (pc = "setup" /\ platform # "windows"))
       ~> (pc = "running" /\ setupResult = "Ok")

\* The spawn failed, the status write failed too, and the host runs.
C5_Witness ==
  /\ pc = "running"
  /\ SpawnFailed
  /\ writeResult = "write_failed"
  /\ setupResult = "Ok"

\* The steps of a hook that reached its spawn attempt and has returned.
CompleteTraces ==
  {<<"open_out", "open_err", "spawn_ok", "write_spawn_ok">>,
   <<"open_out", "open_err", "spawn_failed", "write_spawn_err">>}

StatusWrites == Count("write_spawn_ok") + Count("write_spawn_err")

C7_LogsAppendedChildrenIndependent ==
  [][/\ \A p \in LogPaths :
          files[p].present =>
            (files'[p].present /\ IsPrefix(files[p].data, files'[p].data))
     /\ \A c \in DOMAIN children :
          /\ c \in DOMAIN children'
          /\ [children'[c] EXCEPT !.state = children[c].state] = children[c]
     /\ (pc = "spawn" /\ spawnResult' = "Ok") =>
          /\ Len(children') = Len(children) + 1
          /\ children'[Len(children')].launch = launches
          /\ children'[Len(children')].state = "running"
          /\ \A c \in DOMAIN children : children'[c] = children[c]]_vars

\* Two launches, two running children, and the old log content still first.
C7_Witness ==
  /\ launches = 2
  /\ Len(children) = 2
  /\ children[1].launch = 1 /\ children[2].launch = 2
  /\ children[1].state = "running" /\ children[2].state = "running"
  /\ files[out_path].data = <<"old", LogLine>>
  /\ files[err_path].present

\* C8: on a target other than Windows the hook is a no-op: no step changes
\* a file of the backend directory or creates a process, the hook takes no
\* file or process step, it returns Ok(()) and the host runs.
C8_NoOpElsewhere ==
  /\ [](platform # "windows" =>
          /\ children = <<>>
          /\ trace = <<>>
          /\ handles = {}
          /\ pc # "aborted"
          /\ pc = "setup" => ENABLED SetupSkip
          /\ pc = "return" => ENABLED SetupReturn
          /\ pc \in {"running", "exited"} => setupResult = "Ok")
  /\ [][platform # "windows" => (files' = files /\ children' = children)]_vars

\* The host ran twice on another target and the directory is still empty.
C8_Witness ==
  /\ platform = "other"
  /\ launches = 2
  /\ pc = "running"
  /\ setupResult = "Ok"
  /\ \A p \in Paths : ~files[p].present

\* C9: a launch makes at most one spawn attempt and creates at most one
\* child; the hook neither waits for the child before its status write nor
\* before it returns; and no step of the hook or of the host, its exit
\* included, changes an existing child: a child's state changes only in a
\* step in which the host does nothing.
C9_FireAndForget ==
  /\ [](/\ Count("spawn_ok") + Count("spawn_failed") <= 1
        /\ \A n \in 1..launches : Cardinality(ChildrenOfLaunch(n)) <= 1
        /\ pc = "status" => ENABLED WriteStatus
        /\ pc = "return" => ENABLED SetupReturn
        /\ pc = "running" => ENABLED HostExit)
  /\ [][\A c \in DOMAIN children :
          /\ c \in DOMAIN children'
          /\ children'[c] # children[c] =>
               UNCHANGED <<pc, launches, handles, spawnResult, writeResult,
                           setupResult, trace>>]_vars

\* The host has exited and the child it spawned is still running.
C9_Witness ==
  /\ pc = "exited"
  /\ spawnResult = "Ok"
  /\ \E c \in ChildrenOfLaunch(launches) : children[c].state = "running"

\* The orders in which a hook can take its steps.
OrderedTraces ==
  CompleteTraces \cup {<<"open_out_failed">>, <<"open_out", "open_err_failed">>}

\* C10: the steps of a hook are taken in one order: open backend_out.log,
\* open backend_err.log, spawn, status write. The spawn is attempted only
\* while both log files exist and are held open; and when backend_out.log
\* opens but backend_err.log does not, the launch is aborted with
\* backend_out.log in existence, no child and no status write.
C10_StepsOrdered ==
  /\ \E t \in OrderedTraces : IsPrefix(trace, t)
  /\ pc = "spawn" =>
       /\ trace = <<"open_out", "open_err">>
       /\ handles = LogPaths
       /\ \A p \in LogPaths : files[p].present
  /\ (Has("spawn_ok") \/ Has("spawn_failed")) =>
       \A p \in LogPaths : files[p].present
  /\ Has("open_err_failed") =>
       /\ pc = "aborted"
       /\ files[out_path].present
       /\ ChildrenOfLaunch(launches) = {}
       /\ StatusWrites = 0

\* The first launch of an empty directory died on the second open, having
\* created backend_out.log.
C10_Witness ==
  /\ launches = 1
  /\ pc = "aborted"
  /\ Has("open_err_failed")
  /\ files[out_path] = File(<<>>)
  /\ ~files[err_path].present
  /\ ~files[spawn_ok_path].present /\ ~files[spawn_err_path].present

====
